---------------------------- MODULE Spec2Model ----------------------------
(***************************************************************************)
(* Model of app.py: the /airtable-webhook endpoint that reconciles one     *)
(* catalog row (SKU) against a Shopify store.                              *)
(*                                                                         *)
(* Text is modelled as a sequence of one-character strings, so that        *)
(* str.strip() and float() are computed.  Money and quantities are         *)
(* integers in hundredths (105.50 is 10550).  A Python value that may be   *)
(* None is a set with at most one element ({} is None).                    *)
(***************************************************************************)
EXTENDS Integers, Sequences, FiniteSets, TLC

VARIABLES
    inbox,                      \* webhook deliveries not yet received
    PREFERRED_LOCATION_ID,      \* app.py:14, {} when the variable is unset
    CACHED_PRICE_LISTS,         \* app.py:24, {} is None, else {mapping}
    CACHED_PRIMARY_LOCATION_ID, \* app.py:25, {} is None, else {id}
    shop,                       \* the remote variant/product/inventory/price lists
    catalogs,                   \* the remote market catalogs (nodes)
    locations,                  \* the remote location list
    fails,                      \* remote calls that have failed so far
    served,                     \* responses sent so far
    pc,                         \* per worker: position in airtable_webhook ("off": not serving)
    req,                        \* per worker: the delivery being handled, {} before any
    lv,                         \* per worker: the handler's local variables
    calls,                      \* per worker: remote calls of the current request
    resp,                       \* per worker: the response, {} while none is sent
    prevCalls,                  \* per worker: remote calls of the previous request
    prevResp,                   \* per worker: the response before the last
    shopAtStart                 \* per worker: shop when the current request arrived

vars == <<inbox, PREFERRED_LOCATION_ID, CACHED_PRICE_LISTS,
          CACHED_PRIMARY_LOCATION_ID, shop, catalogs, locations, fails, served,
          pc, req, lv, calls, resp, prevCalls, prevResp, shopAtStart>>

-----------------------------------------------------------------------------
(* Bounds *)

\* deliveries of one event that the sender makes (the first and its redeliveries)
MaxRequests == 2
\* remote calls that may fail in one behaviour
MaxFailures == 1

-----------------------------------------------------------------------------
(* Text *)

Blank == " "

RECURSIVE LStrip(_)
LStrip(s) == IF s # <<>> /\ Head(s) = Blank THEN LStrip(Tail(s)) ELSE s

RECURSIVE RStrip(_)
RStrip(s) ==
    IF s # <<>> /\ s[Len(s)] = Blank THEN RStrip(SubSeq(s, 1, Len(s) - 1)) ELSE s

\* str.strip()
Strip(s) == RStrip(LStrip(s))

DigitOf == ("0" :> 0) @@ ("1" :> 1) @@ ("2" :> 2) @@ ("3" :> 3) @@ ("4" :> 4)
           @@ ("5" :> 5) @@ ("6" :> 6) @@ ("7" :> 7) @@ ("8" :> 8) @@ ("9" :> 9)

CharOf == <<"0", "1", "2", "3", "4", "5", "6", "7", "8", "9">>

AllDigits(s) == \A i \in 1..Len(s) : s[i] \in DOMAIN DigitOf

RECURSIVE DigitsValue(_)
DigitsValue(s) ==
    IF s = <<>> THEN 0
    ELSE 10 * DigitsValue(SubSeq(s, 1, Len(s) - 1)) + DigitOf[s[Len(s)]]

RECURSIVE NatDigits(_)
NatDigits(n) ==
    IF n < 10 THEN <<CharOf[n + 1]>>
    ELSE NatDigits(n \div 10) \o <<CharOf[(n % 10) + 1]>>

\* float(text) for unsigned decimal text, in hundredths (digits past the second
\* decimal are dropped); {} when float() raises
ParseFloat(s) ==
    LET t    == Strip(s)
        dots == {i \in 1..Len(t) : t[i] = "."}
        ip   == IF dots = {} THEN t
                ELSE SubSeq(t, 1, (CHOOSE i \in dots : TRUE) - 1)
        fp   == IF dots = {} THEN <<>>
                ELSE SubSeq(t, (CHOOSE i \in dots : TRUE) + 1, Len(t))
        f2   == SubSeq(fp \o <<"0", "0">>, 1, 2)
    IN  IF /\ Cardinality(dots) <= 1
           /\ Len(ip) + Len(fp) > 0
           /\ AllDigits(ip)
           /\ AllDigits(fp)
        THEN {100 * DigitsValue(ip) + DigitsValue(f2)}
        ELSE {}

\* str(x) of a non-negative float given in hundredths: 10550 is "105.5"
StrFloat(n) ==
    LET c == n % 100
        fr == IF c % 10 = 0 THEN <<CharOf[(c \div 10) + 1]>>
              ELSE <<CharOf[(c \div 10) + 1], CharOf[(c % 10) + 1]>>
    IN  NatDigits(n \div 100) \o <<".">> \o fr

\* int(x) of a non-negative float given in hundredths, in units
IntOf(n) == n \div 100

-----------------------------------------------------------------------------
(* JSON values of the payload *)

JAbsent == [t |-> "absent"]
JNull   == [t |-> "null"]
JStr(s) == [t |-> "str", s |-> s]
JNum(n) == [t |-> "num", n |-> n]

\* dict.get(key): None for a missing key
Get(data, key) == IF data[key].t = "absent" THEN JNull ELSE data[key]

\* Python truthiness of a JSON value
Truthy(j) ==
    CASE j.t = "str" -> j.s # <<>>
      [] j.t = "num" -> j.n # 0
      [] OTHER       -> FALSE

\* bool(x and str(x).strip())
NonBlank(j) ==
    CASE j.t = "str" -> j.s # <<>> /\ Strip(j.s) # <<>>
      [] j.t = "num" -> j.n # 0
      [] OTHER       -> FALSE

\* the JSON value as it is sent in a write's payload: {} when None
Sent(j) == IF j.t = "str" THEN {j.s} ELSE {}

\* _to_number that reads the empty string as 0
ToNumberBlankZero(x) ==
    CASE x.t = "num" -> {x.n}
      [] x.t = "str" -> IF x.s = <<>> THEN {0} ELSE ParseFloat(x.s)
      [] OTHER       -> {}

\* _to_number written with a truth test (if x), which loses 0
ToNumberBug(x) ==
    CASE x.t = "num" -> IF x.n = 0 THEN {} ELSE {x.n}
      [] x.t = "str" -> IF x.s = <<>> THEN {} ELSE ParseFloat(x.s)
      [] OTHER       -> {}

\* _to_number: float(x) unless x is None or "", None when float() raises
_to_number(x) ==
    CASE x.t = "num" -> {x.n}
      [] x.t = "str" -> IF x.s = <<>> THEN {} ELSE ParseFloat(x.s)
      [] OTHER       -> {}

-----------------------------------------------------------------------------
(* Configuration and the remote store *)

WEBHOOK_SECRET == <<"s", "3">>

\* a market loop that leaves the UAE price to the default-price write
MarketsWithoutUAE == <<"Asia", "America">>

Markets == <<"UAE", "Asia", "America">>

\* the table with the catalog titles of the written description
MarketNamesDocumented ==
    ("UAE" :> "United Arab Emirates") @@ ("Asia" :> "Asia Market")
    @@ ("America" :> "International Market")

MARKET_NAMES ==
    ("UAE" :> "United Arab Emirates") @@ ("Asia" :> "Asia Market with 55 rate")
    @@ ("America" :> "America catlog")

Workers == {"w1", "w2"}

\* the one variant of the store, found by its SKU
Sku1 == <<"A", "1">>
Sku2 == <<"B", "2">>
VariantGid == <<"gid:", "", "shopify", "ProductVariant", "42">>
ProductGid == <<"gid:", "", "shopify", "Product", "7">>
InventoryItemId == "77"

PriceListIds == {"PL1", "PL2", "PL3"}
LocationIds == {"61", "62", "69"}

Node(title, status, pl) == [title |-> title, status |-> status, priceList |-> pl]
PL(id, cur) == {[id |-> id, currency |-> cur]}

FullCatalogs ==
    << Node("United Arab Emirates", "ACTIVE", PL("PL1", "AED")),
       Node("Asia Market with 55 rate", "ACTIVE", PL("PL2", "USD")),
       Node("America catlog", "ACTIVE", PL("PL3", "USD")) >>

\* only the Asia catalog is active and has a price list
PartialCatalogs ==
    << Node("United Arab Emirates", "ACTIVE", {}),
       Node("Asia Market with 55 rate", "ACTIVE", PL("PL2", "USD")),
       Node("America catlog", "DRAFT", PL("PL3", "USD")) >>

\* a store whose catalogs carry the titles of the written description
DocumentedCatalogs ==
    << Node("United Arab Emirates", "ACTIVE", PL("PL1", "AED")),
       Node("Asia Market", "ACTIVE", PL("PL2", "USD")),
       Node("International Market", "ACTIVE", PL("PL3", "USD")) >>

Deployment(override, cats, locs) ==
    [override |-> override, catalogs |-> cats, locations |-> locs]

\* SHOPIFY_LOCATION_ID and the store the process is deployed against
Deployments ==
    { Deployment({}, FullCatalogs, <<"61", "62">>),
      Deployment({}, PartialCatalogs, <<"61", "62">>),
      Deployment({}, << >>, <<"61", "62">>),
      Deployment({}, DocumentedCatalogs, << >>),
      Deployment({"69"}, PartialCatalogs, <<"61", "62">>) }

InitShop ==
    [ price            |-> 10000,
      compare_at_price |-> {},
      title            |-> <<"o">>,
      barcode          |-> <<>>,
      ptitle           |-> <<"o">>,
      size             |-> {},
      available        |-> [l \in LocationIds |-> {}],
      fixed            |-> [p \in PriceListIds |->
                               IF p = "PL2" THEN {[price |-> 5000, cmp |-> {}]}
                               ELSE {}] ]

\* productVariants(first: 1, query: "sku:<sku>")
SearchVariants(sku) ==
    IF sku = Sku1
    THEN << [id |-> VariantGid, product |-> [id |-> ProductGid]] >>
    ELSE << >>

\* gid.split("/")[-1]
LastSegment(gid) == gid[Len(gid)]

-----------------------------------------------------------------------------
(* Payloads and deliveries *)

Fields == {"SKU", "Title", "Barcode", "Size", "UAE", "Asia", "America",
           "cUAE", "cAsia", "cAmerica", "Qty"}

\* the comparison-price field of each market (app.py:260-264)
CompareKey == ("UAE" :> "cUAE") @@ ("Asia" :> "cAsia") @@ ("America" :> "cAmerica")

Base == [f \in Fields |-> IF f = "SKU" THEN JStr(Sku1) ELSE JAbsent]

PriceFamily ==
    { [Base EXCEPT !["UAE"] = u, !["Asia"] = a, !["America"] = m, !["cUAE"] = cu] :
        u \in {JAbsent, JNum(10000), JNum(10550), JStr(<<"1", "2", "0">>),
                JStr(<<>>), JStr(<<"a">>)},
        a \in {JAbsent, JStr(<<>>), JNum(5000)},
        m \in {JAbsent, JNum(7000)},
        cu \in {JAbsent, JNum(12000)} }

MarketFamily ==
    { [Base EXCEPT !["UAE"] = u, !["Asia"] = a, !["America"] = m, !["cAsia"] = ca] :
        u \in {JAbsent, JNum(10550)},
        a \in {JNum(5000), JNum(5525)},
        m \in {JAbsent, JNum(7000)},
        ca \in {JAbsent, JNum(6000), JStr(<<"a">>)} }

DescFamily ==
    { [Base EXCEPT !["Title"] = t, !["Barcode"] = b, !["Size"] = z, !["UAE"] = u] :
        t \in {JAbsent, JStr(<<>>), JStr(<<" ">>), JStr(<<"T">>)},
        b \in {JAbsent, JStr(<<" ">>), JStr(<<"8">>)},
        z \in {JAbsent, JStr(<<"M">>)},
        u \in {JAbsent, JNum(10550)} }

QtyFamily ==
    { [Base EXCEPT !["Qty"] = q, !["Title"] = t, !["Asia"] = a] :
        q \in {JAbsent, JNull, JStr(<<>>), JStr(<<" ">>), JNum(0), JStr(<<"0">>),
                JNum(500), JNum(250)},
        t \in {JAbsent, JStr(<<"T">>)},
        a \in {JAbsent, JNum(5500)} }

SkuFamily ==
    { [Base EXCEPT !["SKU"] = s, !["Title"] = t, !["UAE"] = u, !["Qty"] = q] :
        s \in {JAbsent, JNull, JStr(<<>>), JStr(Sku2)},
        t \in {JAbsent, JStr(<<"T">>)},
        u \in {JAbsent, JNum(10550)},
        q \in {JAbsent, JNum(0)} }

\* a row with every field filled in
FullPayload ==
    [Base EXCEPT !["Title"] = JStr(<<"T">>), !["Barcode"] = JStr(<<"8">>),
                 !["Size"] = JStr(<<"M">>), !["UAE"] = JNum(10550),
                 !["cUAE"] = JNum(12000), !["Asia"] = JNum(5525),
                 !["America"] = JNum(7000), !["Qty"] = JNum(500)]

Payloads ==
    PriceFamily \cup MarketFamily \cup DescFamily \cup QtyFamily \cup SkuFamily
    \cup {FullPayload}

GoodToken == JStr(WEBHOOK_SECRET)
Tokens == {JAbsent, JStr(<<>>), JStr(<<"x">>), JStr(<<" ">> \o WEBHOOK_SECRET \o <<" ">>)}

Deliveries ==
    { [token |-> GoodToken, data |-> d] : d \in Payloads }
    \cup { [token |-> k, data |-> d] : k \in Tokens,
           d \in { [Base EXCEPT !["SKU"] = s, !["UAE"] = u] :
                     s \in {JAbsent, JStr(Sku1)}, u \in {JAbsent, JNum(10550)} } }

-----------------------------------------------------------------------------
(* Decisions of the handler *)

\* a check that lets a request without the header through
AuthorizedIfPresent(token) ==
    token.t # "str" \/ Strip(token.s) = WEBHOOK_SECRET

\* app.py:245
Authorized(token) ==
    Strip(IF token.t = "str" THEN token.s ELSE <<>>) = WEBHOOK_SECRET

\* the SKU check written as sku is None, which lets "" through
SkuMissingOnlyNone(sku) == sku.t \notin {"str", "num"}

\* app.py:251, not sku
SkuMissing(sku) == ~Truthy(sku)

\* the lookup without its empty-result check
NoVariantUnchecked(nodes) == FALSE

\* app.py:105, not nodes
NoVariant(nodes) == nodes = << >>

\* a call whose status is never checked
RaisesNever(o) == FALSE

\* requests' raise_for_status(): raises unless the transport status is a success
RaisesForStatus(o) == o = "http_error"

\* a resolver that ignores the configured location
UsesOverrideNever(pref) == FALSE

\* app.py:220, if PREFERRED_LOCATION_ID
UsesOverride(pref) == pref # {}

\* app.py:166, title or barcode
DetailsWanted(title, barcode) == Truthy(title) \/ Truthy(barcode)

\* a lookup that falls back to some price list when the title is not mapped
PlGetFallback(pls, title) ==
    IF title \in DOMAIN pls THEN {pls[title]}
    ELSE IF DOMAIN pls = {} THEN {}
    ELSE {pls[CHOOSE t \in DOMAIN pls : TRUE]}

\* dict.get(key) of the price-list mapping: {} when the title is not mapped
PlGet(pls, title) == IF title \in DOMAIN pls THEN {pls[title]} ELSE {}

\* app.py:76-83, the mapping built from the catalog nodes, later nodes winning
RECURSIVE BuildPriceLists(_, _)
BuildPriceLists(nodes, acc) ==
    IF nodes = << >> THEN acc
    ELSE LET c == Head(nodes)
         IN  BuildPriceLists(Tail(nodes),
                 IF c.status = "ACTIVE" /\ c.priceList # {}
                 THEN (c.title :> (CHOOSE x \in c.priceList : TRUE)) @@ acc
                 ELSE acc)

\* catalogs(first: 20, type: MARKET)
CatalogsFirst == 20
FirstNodes(nodes) ==
    SubSeq(nodes, 1, IF Len(nodes) < CatalogsFirst THEN Len(nodes) ELSE CatalogsFirst)

-----------------------------------------------------------------------------
(* State *)

NoLocals ==
    [ data        |-> Base,
      prices      |-> [m \in {"UAE", "Asia", "America"} |-> {}],
      compare     |-> [m \in {"UAE", "Asia", "America"} |-> {}],
      title       |-> JNull,
      barcode     |-> JNull,
      size        |-> JNull,
      qty         |-> {},
      variant_gid |-> << >>,
      product_gid |-> << >>,
      variant_id  |-> "",
      item_id     |-> "",
      loc         |-> {},
      price_lists |-> << >>,
      mi          |-> 1 ]

\* one remote call as the remote platform sees it
Call(op, kind, tgt, res) ==
    [ op |-> op, kind |-> kind, tgt |-> tgt, res |-> res,
      title |-> {}, barcode |-> {}, text |-> {}, price |-> {}, cmp |-> {},
      currency |-> {}, loc |-> {}, available |-> {} ]

TypeOK ==
    /\ fails \in 0..(MaxFailures + 1)
    /\ served \in Nat
    /\ \A w \in Workers : pc[w] \in {"off", "idle", "lookup", "variant_read", "details",
                                     "product", "size", "price", "inventory",
                                     "locations", "set_inventory", "markets",
                                     "catalogs", "loop"}

InitWith(box, pool, dep) ==
    /\ inbox = box
    /\ PREFERRED_LOCATION_ID = dep.override
    /\ CACHED_PRICE_LISTS = {}
    /\ CACHED_PRIMARY_LOCATION_ID = {}
    /\ shop = InitShop
    /\ catalogs = dep.catalogs
    /\ locations = dep.locations
    /\ fails = 0
    /\ served = 0
    /\ pc = [w \in Workers |-> IF w \in pool THEN "idle" ELSE "off"]
    /\ req = [w \in Workers |-> {}]
    /\ lv = [w \in Workers |-> NoLocals]
    /\ calls = [w \in Workers |-> << >>]
    /\ resp = [w \in Workers |-> {}]
    /\ prevCalls = [w \in Workers |-> << >>]
    /\ prevResp = [w \in Workers |-> {}]
    /\ shopAtStart = [w \in Workers |-> InitShop]

\* one worker; the sender delivers one event and redelivers it
Init ==
    \E d \in Deliveries, dep \in Deployments :
        InitWith([i \in 1..MaxRequests |-> d], {"w1"}, dep)

-----------------------------------------------------------------------------
(* Steps of airtable_webhook *)

RestOutcomes == IF fails < MaxFailures THEN {"ok", "http_error"} ELSE {"ok"}
\* a query answered 200 with errors: "data" missing, or "data": null
QueryOutcomes ==
    IF fails < MaxFailures
    THEN {"ok", "http_error", "gql_errors", "gql_errors_null"}
    ELSE {"ok"}
\* a mutation answered 200 with userErrors
MutationOutcomes ==
    IF fails < MaxFailures THEN {"ok", "http_error", "gql_errors"} ELSE {"ok"}

Counted(o) == fails' = IF o = "ok" THEN fails ELSE fails + 1

\* a handler that updates the inventory before the default price
GotoInventoryFirst(w, label) ==
    pc' = [pc EXCEPT ![w] = CASE label = "price"     -> "inventory"
                              [] label = "inventory" -> "markets"
                              [] label = "markets"   -> "price"
                              [] OTHER               -> label]

Goto(w, label) == pc' = [pc EXCEPT ![w] = label]
Log(w, c) == calls' = [calls EXCEPT ![w] = Append(@, c)]

\* return jsonify(...), status
Respond(w, status, body) ==
    /\ resp' = [resp EXCEPT ![w] = {[status |-> status, body |-> body]}]
    /\ served' = served + 1
    /\ Goto(w, "idle")

\* an exception leaves the view function: Flask answers 500 with its HTML page
Unhandled(w) == Respond(w, 500, "html")

Config == <<PREFERRED_LOCATION_ID, catalogs, locations>>
History == <<req, prevCalls, prevResp, shopAtStart>>

\* a server that handles one request at a time
AdmitsExclusive(w) ==
    pc[w] = "idle" /\ \A v \in Workers \ {w} : pc[v] \in {"idle", "off"}

\* app.py:243 and 298-299: a free thread takes the next request, whatever the
\* other threads are doing and whatever SKU they are working on
Admits(w) == pc[w] = "idle"

\* app.py:245-269
Receive(w) ==
    /\ Admits(w)
    /\ inbox # << >>
    /\ LET d    == Head(inbox)
           data == d.data
           sku  == Get(data, "SKU")
       IN  /\ inbox' = Tail(inbox)
           /\ req' = [req EXCEPT ![w] = {d}]
           /\ prevCalls' = [prevCalls EXCEPT ![w] = calls[w]]
           /\ prevResp' = [prevResp EXCEPT ![w] = resp[w]]
           /\ shopAtStart' = [shopAtStart EXCEPT ![w] = shop]
           /\ calls' = [calls EXCEPT ![w] = << >>]
           /\ IF ~Authorized(d.token)
              THEN /\ Respond(w, 401, "json_error")
                   /\ lv' = [lv EXCEPT ![w] = NoLocals]
              ELSE IF SkuMissing(sku)
              THEN /\ Respond(w, 400, "json_error")
                   /\ lv' = [lv EXCEPT ![w] = [NoLocals EXCEPT !.data = data]]
              ELSE /\ lv' = [lv EXCEPT ![w] =
                        [NoLocals EXCEPT
                           !.data = data,
                           !.prices = [m \in {"UAE", "Asia", "America"} |->
                                          _to_number(Get(data, m))],
                           !.compare = [m \in {"UAE", "Asia", "America"} |->
                                          _to_number(Get(data, CompareKey[m]))],
                           !.title = Get(data, "Title"),
                           !.barcode = Get(data, "Barcode"),
                           !.size = Get(data, "Size"),
                           !.qty = _to_number(Get(data, "Qty"))]]
                   /\ Goto(w, "lookup")
                   /\ resp' = [resp EXCEPT ![w] = {}]
                   /\ UNCHANGED served
    /\ UNCHANGED <<Config, CACHED_PRICE_LISTS, CACHED_PRIMARY_LOCATION_ID, shop, fails>>

\* app.py:102-110 and 272-273
VariantLookup(w) ==
    /\ pc[w] = "lookup"
    /\ \E o \in QueryOutcomes :
         LET sku   == lv[w].data["SKU"]
             found == IF sku.t = "str" THEN SearchVariants(sku.s) ELSE << >>
             nodes == IF o = "ok" THEN found ELSE << >>
         IN  /\ Counted(o)
             /\ Log(w, Call("variant_lookup", "read", "graphql", o))
             /\ IF RaisesForStatus(o) \/ o = "gql_errors_null"
                THEN Unhandled(w) /\ UNCHANGED lv
                ELSE IF NoVariant(nodes)
                THEN Respond(w, 404, "json_error") /\ UNCHANGED lv
                ELSE IF nodes = << >>
                THEN Unhandled(w) /\ UNCHANGED lv
                ELSE /\ lv' = [lv EXCEPT ![w].variant_gid = nodes[1].id,
                                         ![w].product_gid = nodes[1].product.id,
                                         ![w].variant_id = LastSegment(nodes[1].id)]
                     /\ Goto(w, "variant_read")
                     /\ UNCHANGED <<resp, served>>
    /\ UNCHANGED <<inbox, Config, History, CACHED_PRICE_LISTS,
                   CACHED_PRIMARY_LOCATION_ID, shop>>

\* app.py:112-116
VariantRead(w) ==
    /\ pc[w] = "variant_read"
    /\ \E o \in RestOutcomes :
         /\ Counted(o)
         /\ Log(w, Call("variant_read", "read", lv[w].variant_id, o))
         /\ IF RaisesForStatus(o)
            THEN Unhandled(w) /\ UNCHANGED lv
            ELSE /\ lv' = [lv EXCEPT ![w].item_id = InventoryItemId]
                 /\ Goto(w, "details")
                 /\ UNCHANGED <<resp, served>>
    /\ UNCHANGED <<inbox, Config, History, CACHED_PRICE_LISTS,
                   CACHED_PRIMARY_LOCATION_ID, shop>>

\* the one value of a set that holds one
The(S) == CHOOSE x \in S : TRUE

\* app.py:165-184 (called at 275)
UpdateVariantDetails(w) ==
    /\ pc[w] = "details"
    /\ IF ~DetailsWanted(lv[w].title, lv[w].barcode)
       THEN /\ Goto(w, "product")
            /\ UNCHANGED <<calls, shop, fails, resp, served>>
       ELSE \E o \in RestOutcomes :
              LET t == IF NonBlank(lv[w].title) THEN Sent(lv[w].title) ELSE {}
                  b == IF NonBlank(lv[w].barcode) THEN Sent(lv[w].barcode) ELSE {}
              IN  /\ Counted(o)
                  /\ Log(w, [Call("variant_update", "write",
                                  LastSegment(lv[w].variant_gid), o)
                               EXCEPT !.title = t, !.barcode = b])
                  /\ shop' = IF o = "ok"
                             THEN [shop EXCEPT
                                     !.title = IF t = {} THEN @ ELSE The(t),
                                     !.barcode = IF b = {} THEN @ ELSE The(b)]
                             ELSE shop
                  /\ IF RaisesForStatus(o)
                     THEN Unhandled(w)
                     ELSE Goto(w, "product") /\ UNCHANGED <<resp, served>>
    /\ UNCHANGED <<inbox, Config, History, CACHED_PRICE_LISTS,
                   CACHED_PRIMARY_LOCATION_ID, lv>>

\* app.py:186-196 (called at 276)
UpdateProductTitle(w) ==
    /\ pc[w] = "product"
    /\ IF ~Truthy(lv[w].title)
       THEN /\ Goto(w, "size")
            /\ UNCHANGED <<calls, shop, fails, resp, served>>
       ELSE \E o \in RestOutcomes :
              /\ Counted(o)
              /\ Log(w, [Call("product_update", "write",
                              LastSegment(lv[w].product_gid), o)
                           EXCEPT !.title = Sent(lv[w].title)])
              /\ shop' = IF o = "ok"
                         THEN [shop EXCEPT !.ptitle = The(Sent(lv[w].title))]
                         ELSE shop
              /\ IF RaisesForStatus(o)
                 THEN Unhandled(w)
                 ELSE Goto(w, "size") /\ UNCHANGED <<resp, served>>
    /\ UNCHANGED <<inbox, Config, History, CACHED_PRICE_LISTS,
                   CACHED_PRIMARY_LOCATION_ID, lv>>

\* app.py:278-279 and 199-215
SetSizeMetafield(w) ==
    /\ pc[w] = "size"
    /\ IF ~Truthy(lv[w].size)
       THEN /\ Goto(w, "price")
            /\ UNCHANGED <<calls, shop, fails, resp, served>>
       ELSE \E o \in MutationOutcomes :
              /\ Counted(o)
              /\ Log(w, [Call("metafields_set", "write", "custom.size", o)
                           EXCEPT !.text = Sent(lv[w].size)])
              /\ shop' = IF o = "ok" THEN [shop EXCEPT !.size = Sent(lv[w].size)]
                         ELSE shop
              /\ IF RaisesForStatus(o)
                 THEN Unhandled(w)
                 ELSE Goto(w, "price") /\ UNCHANGED <<resp, served>>
    /\ UNCHANGED <<inbox, Config, History, CACHED_PRICE_LISTS,
                   CACHED_PRIMARY_LOCATION_ID, lv>>

\* the default-price write guarded by a diff against the current price
WritesDefaultPriceIfChanged(w) ==
    lv[w].prices["UAE"] # {} /\ lv[w].prices["UAE"] # {shop.price}

\* app.py:281, prices["UAE"] is not None
WritesDefaultPrice(w) == lv[w].prices["UAE"] # {}

\* the text of an optional number as a write carries it
StrOpt(n) == IF n = {} THEN {} ELSE {StrFloat(The(n))}

\* app.py:281-282 and 125-135
UpdateDefaultPrice(w) ==
    /\ pc[w] = "price"
    /\ IF ~WritesDefaultPrice(w)
       THEN /\ Goto(w, "inventory")
            /\ UNCHANGED <<calls, shop, fails, resp, served>>
       ELSE \E o \in RestOutcomes :
              LET p == StrOpt(lv[w].prices["UAE"])
                  c == StrOpt(lv[w].compare["UAE"])
              IN  /\ Counted(o)
                  /\ Log(w, [Call("variant_price", "write", lv[w].variant_id, o)
                               EXCEPT !.price = p, !.cmp = c])
                  /\ shop' = IF o = "ok"
                             THEN [shop EXCEPT
                                     !.price = The(ParseFloat(The(p))),
                                     !.compare_at_price =
                                         IF c = {} THEN @ ELSE ParseFloat(The(c))]
                             ELSE shop
                  /\ IF RaisesForStatus(o)
                     THEN Unhandled(w)
                     ELSE Goto(w, "inventory") /\ UNCHANGED <<resp, served>>
    /\ UNCHANGED <<inbox, Config, History, CACHED_PRICE_LISTS,
                   CACHED_PRIMARY_LOCATION_ID, lv>>

\* app.py:284-285 and 220-223
ResolveLocation(w) ==
    /\ pc[w] = "inventory"
    /\ IF lv[w].qty = {}
       THEN Goto(w, "markets") /\ UNCHANGED lv
       ELSE IF UsesOverride(PREFERRED_LOCATION_ID)
       THEN /\ lv' = [lv EXCEPT ![w].loc = PREFERRED_LOCATION_ID]
            /\ Goto(w, "set_inventory")
       ELSE IF CACHED_PRIMARY_LOCATION_ID # {}
       THEN /\ lv' = [lv EXCEPT ![w].loc = CACHED_PRIMARY_LOCATION_ID]
            /\ Goto(w, "set_inventory")
       ELSE Goto(w, "locations") /\ UNCHANGED lv
    /\ UNCHANGED <<inbox, Config, History, CACHED_PRICE_LISTS,
                   CACHED_PRIMARY_LOCATION_ID, shop, fails, calls, resp, served>>

\* app.py:225-229
ReadLocations(w) ==
    /\ pc[w] = "locations"
    /\ \E o \in RestOutcomes :
         /\ Counted(o)
         /\ Log(w, Call("locations_read", "read", "locations", o))
         /\ IF RaisesForStatus(o) \/ (o = "ok" /\ locations = << >>)
            THEN Unhandled(w) /\ UNCHANGED <<lv, CACHED_PRIMARY_LOCATION_ID>>
            ELSE IF o # "ok"
            THEN Unhandled(w) /\ UNCHANGED <<lv, CACHED_PRIMARY_LOCATION_ID>>
            ELSE /\ CACHED_PRIMARY_LOCATION_ID' = {locations[1]}
                 /\ lv' = [lv EXCEPT ![w].loc = {locations[1]}]
                 /\ Goto(w, "set_inventory")
                 /\ UNCHANGED <<resp, served>>
    /\ UNCHANGED <<inbox, Config, History, CACHED_PRICE_LISTS, shop>>

\* app.py:286 and 231-240
SetInventory(w) ==
    /\ pc[w] = "set_inventory"
    /\ \E o \in RestOutcomes :
         LET q == IntOf(The(lv[w].qty))
         IN  /\ Counted(o)
             /\ Log(w, [Call("inventory_set", "write", lv[w].item_id, o)
                          EXCEPT !.loc = lv[w].loc, !.available = {q}])
             /\ shop' = IF o = "ok"
                        THEN [shop EXCEPT !.available[The(lv[w].loc)] = {q}]
                        ELSE shop
             /\ IF RaisesForStatus(o)
                THEN Unhandled(w)
                ELSE Goto(w, "markets") /\ UNCHANGED <<resp, served>>
    /\ UNCHANGED <<inbox, Config, History, CACHED_PRICE_LISTS,
                   CACHED_PRIMARY_LOCATION_ID, lv>>

\* app.py:60, the truth value of CACHED_PRICE_LISTS: None and {} are both false
CacheHit(cache) == cache # {} /\ DOMAIN The(cache) # {}

\* app.py:288 and 57-61
ResolveMarkets(w) ==
    /\ pc[w] = "markets"
    /\ IF CacheHit(CACHED_PRICE_LISTS)
       THEN /\ lv' = [lv EXCEPT ![w].price_lists = The(CACHED_PRICE_LISTS), ![w].mi = 1]
            /\ Goto(w, "loop")
       ELSE Goto(w, "catalogs") /\ UNCHANGED lv
    /\ UNCHANGED <<inbox, Config, History, CACHED_PRICE_LISTS,
                   CACHED_PRIMARY_LOCATION_ID, shop, fails, calls, resp, served>>

\* app.py:75-87
QueryCatalogs(w) ==
    /\ pc[w] = "catalogs"
    /\ \E o \in QueryOutcomes :
         LET nodes == IF o = "ok" THEN FirstNodes(catalogs) ELSE << >>
             pls   == BuildPriceLists(nodes, << >>)
         IN  /\ Counted(o)
             /\ Log(w, Call("catalogs_query", "read", "graphql", o))
             /\ IF RaisesForStatus(o) \/ o = "gql_errors_null"
                THEN Unhandled(w) /\ UNCHANGED <<lv, CACHED_PRICE_LISTS>>
                ELSE /\ CACHED_PRICE_LISTS' = {pls}
                     /\ lv' = [lv EXCEPT ![w].price_lists = pls, ![w].mi = 1]
                     /\ Goto(w, "loop")
                     /\ UNCHANGED <<resp, served>>
    /\ UNCHANGED <<inbox, Config, History, CACHED_PRIMARY_LOCATION_ID, shop>>

\* app.py:289-294 and 137-162, one iteration of the loop over prices.items()
MarketStep(w) ==
    /\ pc[w] = "loop"
    /\ lv[w].mi <= Len(Markets)
    /\ LET m  == Markets[lv[w].mi]
           p  == lv[w].prices[m]
           pl == PlGet(lv[w].price_lists, MARKET_NAMES[m])
       IN  /\ lv' = [lv EXCEPT ![w].mi = @ + 1]
           /\ IF p = {} \/ pl = {}
              THEN UNCHANGED <<calls, shop, fails, resp, served, pc>>
              ELSE \E o \in MutationOutcomes :
                     LET c == StrOpt(lv[w].compare[m])
                     IN  /\ Counted(o)
                         /\ Log(w, [Call("price_list_add", "write", The(pl).id, o)
                                      EXCEPT !.price = StrOpt(p), !.cmp = c,
                                             !.currency = {The(pl).currency}])
                         /\ shop' = IF o = "ok"
                                    THEN [shop EXCEPT !.fixed[The(pl).id] =
                                            {[price |-> The(ParseFloat(StrFloat(The(p)))),
                                              cmp |-> IF c = {} THEN {}
                                                      ELSE ParseFloat(The(c))]}]
                                    ELSE shop
                         /\ IF RaisesForStatus(o)
                            THEN Unhandled(w)
                            ELSE UNCHANGED <<resp, served, pc>>
    /\ UNCHANGED <<inbox, Config, History, CACHED_PRICE_LISTS,
                   CACHED_PRIMARY_LOCATION_ID>>

\* app.py:296
ReturnSuccess(w) ==
    /\ pc[w] = "loop"
    /\ lv[w].mi > Len(Markets)
    /\ Respond(w, 200, "json_status")
    /\ UNCHANGED <<inbox, Config, History, CACHED_PRICE_LISTS,
                   CACHED_PRIMARY_LOCATION_ID, shop, fails, calls, lv>>

Next ==
    \E w \in Workers :
        \/ Receive(w)
        \/ VariantLookup(w)
        \/ VariantRead(w)
        \/ UpdateVariantDetails(w)
        \/ UpdateProductTitle(w)
        \/ SetSizeMetafield(w)
        \/ UpdateDefaultPrice(w)
        \/ ResolveLocation(w)
        \/ ReadLocations(w)
        \/ SetInventory(w)
        \/ ResolveMarkets(w)
        \/ QueryCatalogs(w)
        \/ MarketStep(w)
        \/ ReturnSuccess(w)

Spec == Init /\ [][Next]_vars

\* two events for the same SKU with different values, delivered together
ConcurrentDeliveries ==
    << [token |-> GoodToken,
        data  |-> [Base EXCEPT !["UAE"] = JNum(10550), !["Asia"] = JNum(5525),
                               !["Qty"] = JNum(500)]],
       [token |-> GoodToken,
        data  |-> [Base EXCEPT !["UAE"] = JNum(10000), !["Asia"] = JNum(5000),
                               !["Qty"] = JNum(0)]] >>

\* app.py:298-299, the threaded server: two requests are handled at once and
\* share the module state
InitConc ==
    InitWith(ConcurrentDeliveries, {"w1", "w2"},
             Deployment({}, FullCatalogs, <<"61", "62">>))

SpecConc == InitConc /\ [][Next]_vars

-----------------------------------------------------------------------------
(* Properties *)

Status(w) == IF resp[w] = {} THEN 0 ELSE The(resp[w]).status
Body(w) == IF resp[w] = {} THEN "" ELSE The(resp[w]).body
Received(w) == req[w] # {}
Payload(w) == The(req[w]).data
PaddedToken == JStr(<<" ">> \o WEBHOOK_SECRET \o <<" ">>)
TokenOk(w) == The(req[w]).token \in {GoodToken, PaddedToken}
Answered(w) == pc[w] = "idle" /\ resp[w] # {}

CallsWith(w, op) == {i \in DOMAIN calls[w] : calls[w][i].op = op}
IsWrite(c) == c.kind = "write"
WriteIdx(cs) == {i \in DOMAIN cs : IsWrite(cs[i])}

\* C1: a request with the correct secret whose SKU is missing, null or empty is
\* answered 400 with a JSON error body, and it has made no remote call and
\* left both caches as they were (empty or as an earlier request set them).
C1_MissingSkuIs400 ==
    \A w \in Workers :
        ( /\ Received(w)
          /\ TokenOk(w)
          /\ Payload(w)["SKU"] \in {JAbsent, JNull, JStr(<<>>)} )
        => /\ Answered(w)
           /\ Status(w) = 400
           /\ Body(w) = "json_error"
           /\ calls[w] = << >>
           /\ prevCalls[w] = << >>
           /\ CACHED_PRICE_LISTS = {}
           /\ CACHED_PRIMARY_LOCATION_ID = {}

C1_Witness ==
    /\ Received("w1")
    /\ TokenOk("w1")
    /\ Payload("w1")["SKU"] = JStr(<<>>)
    /\ Payload("w1")["UAE"] = JNum(10550)
    /\ Status("w1") = 400
    /\ served = 2

\* C2: when the variant lookup of a request with the correct secret and a
\* non-empty SKU is answered with no variant, the request is answered 404 with
\* a JSON error body and the lookup is the only remote call it has made.
C2_NoVariantIs404 ==
    \A w \in Workers :
        ( /\ Received(w)
          /\ TokenOk(w)
          /\ Payload(w)["SKU"] = JStr(Sku2)
          /\ calls[w] # << >>
          /\ calls[w][1].res = "ok" )
        => /\ Answered(w)
           /\ Status(w) = 404
           /\ Body(w) = "json_error"
           /\ Len(calls[w]) = 1
           /\ calls[w][1].op = "variant_lookup"
           /\ shop = InitShop

C2_Witness ==
    /\ Received("w1")
    /\ Payload("w1")["SKU"] = JStr(Sku2)
    /\ Payload("w1")["Title"] = JStr(<<"T">>)
    /\ Payload("w1")["Qty"] = JNum(0)
    /\ Len(calls["w1"]) = 1
    /\ calls["w1"][1].res = "ok"
    /\ Status("w1") = 404

\* a write as it was requested, whatever the remote platform answered
WriteReqs(cs) ==
    LET ws == SelectSeq(cs, IsWrite)
    IN  [i \in 1..Len(ws) |-> [ws[i] EXCEPT !.res = "-"]]

IsPrefix(a, b) == Len(a) <= Len(b) /\ SubSeq(b, 1, Len(a)) = a
AllOk(cs) == \A i \in DOMAIN cs : cs[i].res = "ok"

\* two runs in sequence with identical values, both answered 200
SecondRunDone(w) ==
    /\ Answered(w)
    /\ Status(w) = 200
    /\ prevResp[w] # {}
    /\ The(prevResp[w]).status = 200

PastPrice(w) ==
    \/ pc[w] \in {"inventory", "locations", "set_inventory", "markets",
                  "catalogs", "loop"}
    \/ Answered(w) /\ Status(w) = 200

\* C4 (as claimed): with a default price in the request, no default-price write
\* is issued when the variant's current price equals it, and exactly one,
\* carrying the proposed value, when it differs.
C4_DefaultPriceDiffed ==
    \A w \in Workers :
        (PastPrice(w) /\ lv[w].prices["UAE"] # {}) =>
            LET ws == CallsWith(w, "variant_price")
            IN  IF lv[w].prices["UAE"] = {shopAtStart[w].price}
                THEN ws = {}
                ELSE /\ Cardinality(ws) = 1
                     /\ \A i \in ws :
                            ParseFloat(The(calls[w][i].price)) = lv[w].prices["UAE"]

\* C5 (as claimed): for a market with a present price and a directory entry, a
\* fixed-price write is issued on its price list only if the price list has no
\* current price for the variant or a different one.
C5_MarketPriceDiffed ==
    \A w \in Workers :
        (Answered(w) /\ Status(w) = 200) =>
            \A m \in DOMAIN MARKET_NAMES :
                (lv[w].prices[m] # {} /\ MARKET_NAMES[m] \in DOMAIN lv[w].price_lists) =>
                    LET id  == lv[w].price_lists[MARKET_NAMES[m]].id
                        cur == shopAtStart[w].fixed[id]
                        ws  == {i \in CallsWith(w, "price_list_add") :
                                   calls[w][i].tgt = id}
                    IN  IF cur # {} /\ The(cur).price = The(lv[w].prices[m])
                        THEN ws = {}
                        ELSE Cardinality(ws) = 1

PastInventory(w) ==
    \/ pc[w] \in {"markets", "catalogs", "loop"}
    \/ Answered(w) /\ Status(w) = 200

\* get_primary_location_id's result for the deployment
ExpectedLocation ==
    IF PREFERRED_LOCATION_ID # {} THEN PREFERRED_LOCATION_ID ELSE {locations[1]}

\* C6: a request whose quantity is absent or blank issues no location read and
\* no inventory call; a request whose quantity is 0, once past the inventory
\* step, has issued exactly one inventory set, for the variant's inventory item
\* at the resolved location with available = 0.
C6_AbsentIsNotZero ==
    \A w \in Workers :
        Received(w) =>
            /\ Payload(w)["Qty"] \in {JAbsent, JNull, JStr(<<>>), JStr(<<" ">>)}
                 => /\ CallsWith(w, "locations_read") = {}
                    /\ CallsWith(w, "inventory_set") = {}
            /\ (Payload(w)["Qty"] \in {JNum(0), JStr(<<"0">>)} /\ PastInventory(w))
                 => /\ Cardinality(CallsWith(w, "inventory_set")) = 1
                    /\ \A i \in CallsWith(w, "inventory_set") :
                          /\ calls[w][i].tgt = InventoryItemId
                          /\ calls[w][i].loc = ExpectedLocation
                          /\ calls[w][i].available = {0}
                          /\ calls[w][i].res = "ok"

C6_Witness ==
    /\ Received("w1")
    /\ Payload("w1")["Qty"] = JNum(0)
    /\ Answered("w1")
    /\ Status("w1") = 200
    /\ PREFERRED_LOCATION_ID = {}
    /\ shop.available["61"] = {0}
    /\ Cardinality(CallsWith("w1", "locations_read")) = 1

\* markets of the request with a present price whose title is (not) in the
\* directory the request resolved
PricedMarkets(w, mapped) ==
    {m \in DOMAIN MARKET_NAMES :
        /\ lv[w].prices[m] # {}
        /\ (MARKET_NAMES[m] \in DOMAIN lv[w].price_lists) = mapped}

\* C7: a request answered 200 has issued exactly one price-list write for each
\* market with a present price and a directory entry, on that entry's price
\* list, and none for a market without an entry; and a request is answered 500
\* only after a remote call failed or returned an empty location list.
C7_UnmappedMarketSkipped ==
    \A w \in Workers :
        /\ (Answered(w) /\ Status(w) = 200) =>
              /\ \A m \in PricedMarkets(w, TRUE) :
                     Cardinality({i \in CallsWith(w, "price_list_add") :
                         calls[w][i].tgt = lv[w].price_lists[MARKET_NAMES[m]].id}) = 1
              /\ Cardinality(CallsWith(w, "price_list_add"))
                     = Cardinality(PricedMarkets(w, TRUE))
        /\ (Answered(w) /\ Status(w) = 500) =>
              /\ calls[w] # << >>
              /\ LET c == calls[w][Len(calls[w])]
                 IN  c.res # "ok" \/ (c.op = "locations_read" /\ locations = << >>)

C7_Witness ==
    /\ Answered("w1")
    /\ Status("w1") = 200
    /\ PricedMarkets("w1", FALSE) = {"UAE", "America"}
    /\ PricedMarkets("w1", TRUE) = {"Asia"}
    /\ Cardinality(CallsWith("w1", "price_list_add")) = 1

\* the remote state holds what an answered write carried
Applied(c) ==
    CASE c.op = "variant_update" ->
            /\ c.title # {} => shop.title = The(c.title)
            /\ c.barcode # {} => shop.barcode = The(c.barcode)
      [] c.op = "product_update" -> shop.ptitle = The(c.title)
      [] c.op = "metafields_set" -> shop.size = c.text
      [] c.op = "variant_price" ->
            /\ {shop.price} = ParseFloat(The(c.price))
            /\ c.cmp # {} => shop.compare_at_price = ParseFloat(The(c.cmp))
      [] c.op = "inventory_set" -> shop.available[The(c.loc)] = c.available
      [] c.op = "price_list_add" ->
            /\ shop.fixed[c.tgt] # {}
            /\ {The(shop.fixed[c.tgt]).price} = ParseFloat(The(c.price))
      [] OTHER -> TRUE

\* C8: when a remote call of a request is answered with a non-success status,
\* it is the last call of the request (nothing later is issued, and it is not
\* issued again), the request is answered 500, and every write answered with
\* success before it is still in the remote state.
C8_AbortNoRollbackNoRetry ==
    \A w \in Workers :
        \A i \in DOMAIN calls[w] :
            calls[w][i].res = "http_error" =>
                /\ i = Len(calls[w])
                /\ Answered(w)
                /\ Status(w) = 500
                /\ \A j \in 1..(i - 1) :
                       (IsWrite(calls[w][j]) /\ calls[w][j].res = "ok")
                           => Applied(calls[w][j])

C8_Witness ==
    /\ Answered("w1")
    /\ Status("w1") = 500
    /\ Len(calls["w1"]) >= 6
    /\ calls["w1"][Len(calls["w1"])].res = "http_error"
    /\ calls["w1"][Len(calls["w1"])].op = "inventory_set"
    /\ CallsWith("w1", "variant_update") # {}
    /\ shop.title = <<"T">>
    /\ shop.ptitle = <<"T">>
    /\ shop.available = InitShop.available
    /\ prevCalls["w1"] = << >>

\* C9 (as claimed): every answer other than 200 has a status of the taxonomy
\* and a JSON body with an error field.
C9_FailuresAreJson ==
    \A w \in Workers :
        (Answered(w) /\ Status(w) # 200) =>
            /\ Status(w) \in {400, 401, 404, 500, 502, 503}
            /\ Body(w) = "json_error"

\* C10 (as claimed): a structured call answered with a success status and an
\* error payload fails: it is the last call of the request, and the request is
\* answered with a 5xx.
C10_ErrorPayloadFails ==
    \A w \in Workers :
        \A i \in DOMAIN calls[w] :
            calls[w][i].res \in {"gql_errors", "gql_errors_null"} =>
                /\ i = Len(calls[w])
                /\ Answered(w)
                /\ Status(w) \in {500, 502, 503}

\* C11 (as claimed): once the catalog query of a request has been answered
\* without error, whatever it listed, no later request issues it again; a
\* request issues it at most once; and while no query has been answered the
\* cache is empty.
C11_CachedAfterFirstSuccess ==
    \A w \in Workers :
        /\ (\E i \in DOMAIN prevCalls[w] :
               prevCalls[w][i].op = "catalogs_query" /\ prevCalls[w][i].res = "ok")
             => CallsWith(w, "catalogs_query") = {}
        /\ Cardinality(CallsWith(w, "catalogs_query")) <= 1
        /\ (\A v \in Workers : \A i \in DOMAIN calls[v] \cup DOMAIN prevCalls[v] :
               /\ i \in DOMAIN calls[v] =>
                     ~(calls[v][i].op = "catalogs_query"
                       /\ calls[v][i].res \in {"ok", "gql_errors"})
               /\ i \in DOMAIN prevCalls[v] =>
                     ~(prevCalls[v][i].op = "catalogs_query"
                       /\ prevCalls[v][i].res \in {"ok", "gql_errors"}))
             => CACHED_PRICE_LISTS = {}

\* the price lists of the active catalogs of the store that carry a title
ActiveListsTitled(title) ==
    UNION {catalogs[k].priceList : k \in {j \in DOMAIN catalogs :
        catalogs[j].title = title /\ catalogs[j].status = "ACTIVE"}}

ActiveTitles ==
    {catalogs[k].title : k \in {j \in DOMAIN catalogs :
        catalogs[j].status = "ACTIVE" /\ catalogs[j].priceList # {}}}

\* every price-list write of a request carries the present price of a market
\* and goes to the price list of the active catalog that a table names for that
\* market; and when the active catalogs of the store, and the directory the
\* request resolved, are exactly the three of the table, a request answered 200
\* has written once for each present price
WritesFollow(table) ==
    \A w \in Workers :
        /\ \A i \in CallsWith(w, "price_list_add") :
              \E m \in DOMAIN table :
                  /\ lv[w].prices[m] # {}
                  /\ calls[w][i].price = StrOpt(lv[w].prices[m])
                  /\ \E pl \in ActiveListsTitled(table[m]) :
                        /\ calls[w][i].tgt = pl.id
                        /\ calls[w][i].currency = {pl.currency}
        /\ ( /\ Answered(w)
             /\ Status(w) = 200
             /\ DOMAIN lv[w].price_lists = {table[m] : m \in DOMAIN table}
             /\ ActiveTitles = {table[m] : m \in DOMAIN table} ) =>
              \A m \in DOMAIN table :
                  lv[w].prices[m] # {} =>
                      \E pl \in ActiveListsTitled(table[m]) :
                          Cardinality({i \in CallsWith(w, "price_list_add") :
                              calls[w][i].tgt = pl.id}) = 1

\* C12 (as claimed): market prices are written to the price lists of the
\* catalogs titled "United Arab Emirates", "Asia Market" and "International
\* Market", and a store with exactly these three active catalogs receives one
\* write for each present market price.
C12_DocumentedTableSelects ==
    WritesFollow(("UAE" :> "United Arab Emirates") @@ ("Asia" :> "Asia Market")
                 @@ ("America" :> "International Market"))

\* C12 (amended): the table is UAE -> "United Arab Emirates", Asia -> "Asia
\* Market with 55 rate", America -> "America catlog": every price-list write
\* goes to the price list of the active catalog with the title of its market,
\* and a store with exactly these three active catalogs receives one write for
\* each present market price.
C12_CodeTableSelects ==
    WritesFollow(("UAE" :> "United Arab Emirates")
                 @@ ("Asia" :> "Asia Market with 55 rate")
                 @@ ("America" :> "America catlog"))

C12_Witness ==
    /\ Answered("w1")
    /\ Status("w1") = 200
    /\ catalogs = FullCatalogs
    /\ \A m \in {"UAE", "Asia", "America"} : lv["w1"].prices[m] # {}
    /\ {calls["w1"][i].tgt : i \in CallsWith("w1", "price_list_add")}
           = {"PL1", "PL2", "PL3"}

\* a numeric field that is absent, null, empty, blank or not a number
NoValue(j) ==
    \/ j.t \in {"absent", "null"}
    \/ j.t = "str" /\ j.s \in {<<>>, <<" ">>, <<"a">>}

\* the price-list writes of a request that go to the list of a market
MarketWrites(w, m) ==
    {i \in CallsWith(w, "price_list_add") :
        \E pl \in ActiveListsTitled(MARKET_NAMES[m]) : calls[w][i].tgt = pl.id}

\* C13: a numeric field that is absent, null, empty, blank or unparseable
\* causes no call and no change: no default-price write for the UAE price, no
\* price-list write for its market, no location read and no inventory set for
\* the quantity, and no comparison price in the write of its market.
C13_BlankMeansNoChange ==
    \A w \in Workers :
        (Received(w) /\ TokenOk(w)) =>
            LET d == Payload(w)
            IN  /\ NoValue(d["UAE"]) =>
                      /\ CallsWith(w, "variant_price") = {}
                      /\ shop.price = InitShop.price
                /\ \A m \in {"UAE", "Asia", "America"} :
                      /\ NoValue(d[m]) => MarketWrites(w, m) = {}
                      /\ NoValue(d[CompareKey[m]]) =>
                            \A i \in MarketWrites(w, m) : calls[w][i].cmp = {}
                /\ NoValue(d["cUAE"]) =>
                      /\ \A i \in CallsWith(w, "variant_price") : calls[w][i].cmp = {}
                      /\ shop.compare_at_price = InitShop.compare_at_price
                /\ (\A m \in {"UAE", "Asia", "America"} : NoValue(d[m])) =>
                      /\ CallsWith(w, "price_list_add") = {}
                      /\ shop.fixed = InitShop.fixed
                /\ NoValue(d["Qty"]) =>
                      /\ CallsWith(w, "inventory_set") = {}
                      /\ CallsWith(w, "locations_read") = {}
                      /\ shop.available = InitShop.available

\* {"SKU": "A1", "UAE price": "120", "Asia Price": ""} answered 200
C13_Witness ==
    /\ Answered("w1")
    /\ Status("w1") = 200
    /\ Payload("w1")["UAE"] = JStr(<<"1", "2", "0">>)
    /\ Payload("w1")["Asia"] = JStr(<<>>)
    /\ Payload("w1")["America"] = JAbsent
    /\ Payload("w1")["Qty"] = JAbsent
    /\ catalogs = FullCatalogs
    /\ Cardinality(CallsWith("w1", "variant_price")) = 1
    /\ {calls["w1"][i].tgt : i \in CallsWith("w1", "price_list_add")} = {"PL1"}
    /\ shop.fixed["PL2"] = InitShop.fixed["PL2"]
    /\ CallsWith("w1", "inventory_set") = {}

\* C14 (as claimed): a variant update is issued exactly when the title or the
\* barcode is present and non-blank, and carries exactly the non-blank ones,
\* never neither; a product update is issued exactly when the title is
\* present, and a size metafield exactly when the size is present.
C14_DetailsOnlyNonBlank ==
    \A w \in Workers :
        /\ \A i \in CallsWith(w, "variant_update") :
              /\ calls[w][i].title # {} \/ calls[w][i].barcode # {}
              /\ calls[w][i].title =
                    (IF NonBlank(lv[w].title) THEN Sent(lv[w].title) ELSE {})
              /\ calls[w][i].barcode =
                    (IF NonBlank(lv[w].barcode) THEN Sent(lv[w].barcode) ELSE {})
        /\ (Answered(w) /\ Status(w) = 200) =>
              /\ Cardinality(CallsWith(w, "variant_update")) =
                    (IF NonBlank(lv[w].title) \/ NonBlank(lv[w].barcode) THEN 1 ELSE 0)
              /\ Cardinality(CallsWith(w, "product_update")) =
                    (IF Truthy(lv[w].title) THEN 1 ELSE 0)
              /\ Cardinality(CallsWith(w, "metafields_set")) =
                    (IF Truthy(lv[w].size) THEN 1 ELSE 0)

\* C15: when a location override is configured, every resolution of the
\* location yields the override itself, no request ever reads the location
\* list, the location cache is never written, and every inventory set names
\* the override.
C15_OverrideWins ==
    PREFERRED_LOCATION_ID # {} =>
        /\ CACHED_PRIMARY_LOCATION_ID = {}
        /\ \A w \in Workers :
              /\ pc[w] # "locations"
              /\ pc[w] = "set_inventory" => lv[w].loc = PREFERRED_LOCATION_ID
              /\ CallsWith(w, "locations_read") = {}
              /\ \A i \in DOMAIN prevCalls[w] : prevCalls[w][i].op # "locations_read"
              /\ \A i \in CallsWith(w, "inventory_set") :
                    calls[w][i].loc = PREFERRED_LOCATION_ID
              /\ \A i \in DOMAIN prevCalls[w] :
                    prevCalls[w][i].op = "inventory_set" =>
                        prevCalls[w][i].loc = PREFERRED_LOCATION_ID

C15_Witness ==
    /\ PREFERRED_LOCATION_ID = {"69"}
    /\ Answered("w1")
    /\ Status("w1") = 200
    /\ \E i \in CallsWith("w1", "inventory_set") :
          calls["w1"][i].loc = {"69"} /\ calls["w1"][i].res = "ok"
    /\ \E i \in DOMAIN prevCalls["w1"] : prevCalls["w1"][i].op = "inventory_set"
    /\ Payload("w1")["Qty"] = JNum(500)
    /\ shop.available["69"] = {5}
    /\ shop.available["61"] = {}

OkCalls(op) ==
    UNION {{<<w, i, "now">> : i \in {j \in DOMAIN calls[w] :
                calls[w][j].op = op /\ calls[w][j].res = "ok"}} : w \in Workers}
    \cup
    UNION {{<<w, i, "before">> : i \in {j \in DOMAIN prevCalls[w] :
                prevCalls[w][j].op = op /\ prevCalls[w][j].res = "ok"}} : w \in Workers}

\* C17 (as claimed): over all requests handled in the process, at once or one
\* after another, the catalog listing is answered at most once and, with no
\* location override, the location list is answered at most once.
C17_WarmUpOnce ==
    /\ Cardinality(OkCalls("catalogs_query")) <= 1
    /\ Cardinality(OkCalls("locations_read")) <= 1

\* the position of an operation in the handler, and of a price list in the
\* order of the markets
OpRank ==
    ("variant_lookup" :> 1) @@ ("variant_read" :> 2) @@ ("variant_update" :> 3)
    @@ ("product_update" :> 4) @@ ("metafields_set" :> 5) @@ ("variant_price" :> 6)
    @@ ("locations_read" :> 7) @@ ("inventory_set" :> 8) @@ ("catalogs_query" :> 9)
    @@ ("price_list_add" :> 10)

ListRank(tgt) ==
    CHOOSE k \in 0..3 :
        \/ /\ k > 0
           /\ \E pl \in ActiveListsTitled(
                            MARKET_NAMES[<<"UAE", "Asia", "America">>[k]]) :
                  pl.id = tgt
        \/ /\ k = 0
           /\ \A j \in 1..3 :
                  \A pl \in ActiveListsTitled(
                               MARKET_NAMES[<<"UAE", "Asia", "America">>[j]]) :
                      pl.id # tgt

\* C18: the calls of a request form one chain: every call but the last was
\* answered with a success status; the variant lookup and the variant read
\* come first and precede every write; and the calls follow the order variant
\* details, product title, size metafield, default price, inventory set,
\* price-list writes, the latter in the order of the markets: each call has a
\* later position than the call before it, so none occurs twice.
C18_OneOrderedChain ==
    \A w \in Workers :
        LET cs == calls[w]
        IN  /\ \A i \in DOMAIN cs : i < Len(cs) => cs[i].res # "http_error"
            /\ \A j \in WriteIdx(cs) :
                  /\ j > 2
                  /\ cs[1].op = "variant_lookup"
                  /\ cs[2].op = "variant_read"
            /\ \A i \in 1..(Len(cs) - 1) :
                  \/ OpRank[cs[i].op] < OpRank[cs[i + 1].op]
                  \/ /\ cs[i].op = "price_list_add"
                     /\ cs[i + 1].op = "price_list_add"
                     /\ 0 < ListRank(cs[i].tgt)
                     /\ ListRank(cs[i].tgt) < ListRank(cs[i + 1].tgt)

\* a request with every field, answered 200 after all ten operations
C18_Witness ==
    /\ Answered("w1")
    /\ Status("w1") = 200
    /\ Payload("w1") = FullPayload
    /\ catalogs = FullCatalogs
    /\ Len(calls["w1"]) = 12
    /\ {calls["w1"][i].op : i \in DOMAIN calls["w1"]} = DOMAIN OpRank
    /\ \A i \in DOMAIN calls["w1"] : calls["w1"][i].res = "ok"

\* C19: requests are not held back by one another: a free worker can take the
\* next delivery whatever the other worker is doing, also when that one is in
\* the middle of a request for the same SKU; and once both requests are
\* answered 200 with no failed call, every remote field holds the value of one
\* of the two requests, each field on its own.
C19_NotExclusive ==
    /\ \A w \in Workers :
          (pc[w] = "idle" /\ inbox # << >>) => ENABLED Receive(w)
    /\ ((\A w \in Workers : Answered(w) /\ Status(w) = 200) /\ fails = 0) =>
          /\ shop.price \in {10550, 10000}
          /\ shop.available["61"] \in {{5}, {0}}
          /\ shop.fixed["PL2"] \in {{[price |-> 5525, cmp |-> {}]},
                                    {[price |-> 5000, cmp |-> {}]}}

\* both requests answered 200, no call of either failed, and the store holds
\* the default price of the first delivery with the quantity and the Asia
\* price of the second: the outcome of neither serial order
C19_Witness ==
    /\ \A w \in Workers : Answered(w) /\ Status(w) = 200
    /\ fails = 0
    /\ inbox = << >>
    /\ {Payload(w)["UAE"] : w \in Workers} = {JNum(10550), JNum(10000)}
    /\ shop.price = 10550
    /\ shop.available["61"] = {0}
    /\ shop.fixed["PL2"] = {[price |-> 5000, cmp |-> {}]}

\* the price-list writes of a request on the list the directory it resolved
\* has under "United Arab Emirates"
UaeListWrites(w) ==
    {i \in CallsWith(w, "price_list_add") :
        /\ "United Arab Emirates" \in DOMAIN lv[w].price_lists
        /\ calls[w][i].tgt = lv[w].price_lists["United Arab Emirates"].id}

\* C20: a request answered 200 whose UAE price is present has issued one
\* default-price write with that price, and with the UAE comparison price
\* exactly when that is present, and, when its directory has a "United Arab
\* Emirates" entry, one separate write of the same price on that price list;
\* without a UAE price no request issues a default-price write or a write on
\* that list, whatever the Asia and America prices are, and a UAE comparison
\* price alone causes no write at all.
C20_UaeIsDefaultAndMarket ==
    \A w \in Workers :
        (Received(w) /\ TokenOk(w)) =>
            LET d == Payload(w)
            IN  /\ (~NoValue(d["UAE"]) /\ Answered(w) /\ Status(w) = 200) =>
                      /\ Cardinality(CallsWith(w, "variant_price")) = 1
                      /\ \A i \in CallsWith(w, "variant_price") :
                            /\ calls[w][i].price = StrOpt(lv[w].prices["UAE"])
                            /\ ParseFloat(The(calls[w][i].price)) = _to_number(d["UAE"])
                            /\ calls[w][i].cmp = StrOpt(lv[w].compare["UAE"])
                            /\ (calls[w][i].cmp = {}) = NoValue(d["cUAE"])
                            /\ \A j \in UaeListWrites(w) :
                                  j > i /\ calls[w][j].price = calls[w][i].price
                      /\ Cardinality(UaeListWrites(w)) =
                            (IF "United Arab Emirates" \in DOMAIN lv[w].price_lists
                             THEN 1 ELSE 0)
                /\ NoValue(d["UAE"]) =>
                      /\ CallsWith(w, "variant_price") = {}
                      /\ UaeListWrites(w) = {}
                      /\ MarketWrites(w, "UAE") = {}
                /\ (\A f \in Fields \ {"SKU", "cUAE"} : d[f] = JAbsent) =>
                      WriteIdx(calls[w]) = {}

\* UAE price and UAE comparison price against a store with all three catalogs
C20_Witness ==
    /\ Answered("w1")
    /\ Status("w1") = 200
    /\ Payload("w1")["UAE"] = JNum(10550)
    /\ Payload("w1")["cUAE"] = JNum(12000)
    /\ Payload("w1")["Asia"] = JAbsent
    /\ catalogs = FullCatalogs
    /\ \E i \in CallsWith("w1", "variant_price") :
          calls["w1"][i].cmp # {} /\ calls["w1"][i].res = "ok"
    /\ Cardinality(UaeListWrites("w1")) = 1
    /\ shop.price = 10550
    /\ shop.fixed["PL1"] # {}

\* a UAE comparison price alone, answered 200 without a write
C20_WitnessCompareOnly ==
    /\ Answered("w1")
    /\ Status("w1") = 200
    /\ Payload("w1")["cUAE"] = JNum(12000)
    /\ Payload("w1")["UAE"] = JAbsent

=============================================================================
